---- MODULE Spec2Model ----
(***************************************************************************)
(* Job orchestration and caching core of the video frame extractor:       *)
(* JobManager (worker pool, submit, cancel), FrameExtractor (the sampling *)
(* loop run on a pool thread), DatabaseManager (jobs and frame_metadata   *)
(* tables) and CacheManager (redis or in-process map).                    *)
(*                                                                         *)
(* DashboardService (the cache-aside read path) and the submission        *)
(* endpoint are modelled with them.                                       *)
(*                                                                         *)
(* Each action is one step that touches shared state (one store           *)
(* transaction, one filesystem call, one cache call); steps of the worker *)
(* that touch only its own locals (cap.read, the stride test, the         *)
(* frame_count increment) are folded into the shared step before them.    *)
(***************************************************************************)
EXTENDS Integers, Sequences, FiniteSets, TLC

\* ------------------------------------------------------------------ bounds
MaxJobs == 2        \* submissions per behaviour
MaxPool == 2        \* MAX_CONCURRENT_JOBS is drawn from 1..MaxPool
MaxFps == 2         \* frame rates reported by a source: 0..MaxFps
MaxFrames == 2      \* frames in a source that has any
MaxCancels == 1     \* cancel_job calls per behaviour
MaxQueries == 1     \* dashboard get_recent_frames calls per behaviour
MaxReads == 1       \* get_job_status calls per behaviour
MaxRows == 3        \* frame rows saved by direct save_frame_metadata calls

DefaultStride == 30 \* frame_interval when fps is not positive
RecentCap == 10     \* extracted_frames[-10:] goes to the cache
CACHE_TTL == 3600   \* config.CACHE_TTL, seconds
RecentTtl == 300    \* ttl of the aggregate "recent_frames" entry, seconds

JobIds == 1..MaxJobs

\* The ids cancel_job is called with: those of the jobs and 0, an id that
\* submit_job never returned.
CancelIds == 0..MaxJobs

Null == "None"

\* ------------------------------------------------------------------ inputs
\* A video source as the sampler sees it: os.path.exists, cap.isOpened on
\* every backend, CAP_PROP_FPS, and the number of frames cap.read delivers.
Missing == [exists |-> FALSE, openable |-> FALSE, fps |-> 0, nframes |-> 0]
Unopenable == [exists |-> TRUE, openable |-> FALSE, fps |-> 0, nframes |-> 0]
Video(f, n) == [exists |-> TRUE, openable |-> TRUE, fps |-> f, nframes |-> n]
\* The sources submitted: a missing path, a file no backend opens, an empty
\* video, and a video of MaxFrames frames at each frame rate (rate 0 is a
\* source that reports none).
Sources ==
    {Missing, Unopenable, Video(MaxFps, 0)} \cup {Video(f, MaxFrames) : f \in 0..MaxFps}

\* The sampling interval in seconds, an exact rational n/d.
Intervals == {[n |-> 1, d |-> 2]}

\* The instants, in seconds, at which the clock is read: the start, and the
\* moments an entry written at the start or RecentTtl later runs out.
Instants == {0, RecentTtl, CACHE_TTL, CACHE_TTL + RecentTtl}

\* The ttl argument of CacheManager.set: None (no element) or a number.
Ttls == {<<>>, <<0>>, <<1>>, <<RecentTtl>>}

VARIABLES
    now,           \* time.time() / datetime.now(), in seconds
    maxWorkers,    \* ThreadPoolExecutor max_workers (config.MAX_CONCURRENT_JOBS)
    nextId,        \* number of job ids generated so far
    args,          \* job id -> (video_source, interval) handed to the pool
    jobs,          \* store: jobs table, keyed by job_id
    frames,        \* store: frame_metadata table, in insertion (id) order
    fs,            \* artifact root: job directory -> set of file names
    active_jobs,   \* JobManager.active_jobs: ids holding a future
    fut,           \* state of each job's future
    pc,            \* position of the worker running each job
    job,           \* worker local: the JobStatus object it holds
    frame_count,   \* worker local
    extracted,     \* worker local: extracted_frames
    exc,           \* worker local: str(e) of the exception being handled
    use_redis,     \* CacheManager.use_redis, fixed at construction
    redis_up,      \* whether the external cache answers
    cache,         \* contents of the backend in use: key -> value
    cancelRet,     \* job id -> result of the last cancel_job call on it
    cancelAt,      \* job id -> whether a worker was running it at that call
    ncancels,      \* number of cancel_job calls so far
    cancelling,    \* jobs with a cancel_job call in progress
    waited,        \* history: jobs submitted while no pool thread was free
    queryRet,      \* outcome of the last dashboard get_recent_frames call
    nqueries,      \* number of dashboard calls so far
    statusRet,     \* the get_job_status calls made: job id and the job returned
    cacheRet,      \* what the last direct CacheManager.get call returned
    reading        \* the read path inside an in-process cache operation

vars == <<now, maxWorkers, nextId, args, jobs, frames, fs, active_jobs, fut, pc, job,
          frame_count, extracted, exc, use_redis, redis_up, cache, cancelRet, cancelAt, ncancels,
          cancelling, waited, queryRet, nqueries, statusRet, cacheRet, reading>>

storeVars == <<jobs, frames>>
poolVars == <<active_jobs, fut>>
localVars == <<job, frame_count, extracted, exc>>
cacheVars == <<use_redis, redis_up, cache>>
cancelVars == <<cancelRet, cancelAt, ncancels, cancelling>>
envVars == <<now, maxWorkers, nextId, args, waited>>
queryVars == <<queryRet, nqueries, statusRet, cacheRet, reading>>

\* ------------------------------------------------------------------ store
save_job_insert_or_ignore(tbl, row) ==
    [k \in DOMAIN tbl \cup {row.job_id} |-> IF k \in DOMAIN tbl THEN tbl[k] ELSE row]

\* DatabaseManager.save_job: INSERT OR REPLACE of the whole row, by job_id.
save_job(tbl, row) ==
    [k \in DOMAIN tbl \cup {row.job_id} |-> IF k = row.job_id THEN row ELSE tbl[k]]

\* DatabaseManager.get_job: whether a row is found; the row is tbl[id].
get_job_found(tbl, id) == id \in DOMAIN tbl

save_frame_metadata_replacing(tbl, frame) ==
    Append(SelectSeq(tbl, LAMBDA f : f.job_id # frame.job_id), frame)

\* DatabaseManager.save_frame_metadata: INSERT, the row gets the next id.
save_frame_metadata(tbl, frame) == Append(tbl, frame)

delete_frames_all(tbl, id) == <<>>

delete_frames_skipped(tbl, id) == tbl

\* DELETE FROM frame_metadata WHERE job_id = ?
delete_frames(tbl, id) == SelectSeq(tbl, LAMBDA f : f.job_id # id)

delete_job_skipped(tbl, id) == tbl

\* DELETE FROM jobs WHERE job_id = ?
delete_job(tbl, id) == [k \in DOMAIN tbl \ {id} |-> tbl[k]]

\* Timestamps are exact rationals n/d with d > 0.
TsLess(a, b) == a.n * b.d < b.n * a.d
TsEq(a, b) == a.n * b.d = b.n * a.d

RECURSIVE InsertByTimestamp(_, _)
InsertByTimestamp(sorted, f) ==
    IF sorted = <<>> THEN <<f>>
    ELSE IF TsLess(f.timestamp, Head(sorted).timestamp) THEN <<f>> \o sorted
    ELSE <<Head(sorted)>> \o InsertByTimestamp(Tail(sorted), f)

RECURSIVE OrderByTimestamp(_)
OrderByTimestamp(rows) ==
    IF rows = <<>> THEN <<>>
    ELSE InsertByTimestamp(OrderByTimestamp(SubSeq(rows, 1, Len(rows) - 1)), rows[Len(rows)])

get_frames_by_job_unordered(tbl, id) == SelectSeq(tbl, LAMBDA f : f.job_id = id)

\* DatabaseManager.get_frames_by_job: SELECT ... WHERE job_id = ? ORDER BY timestamp
get_frames_by_job(tbl, id) == OrderByTimestamp(SelectSeq(tbl, LAMBDA f : f.job_id = id))

Reverse(s) == [i \in 1..Len(s) |-> s[Len(s) + 1 - i]]

\* ------------------------------------------------------------------ cache
FrameKey(id, ts) == [kind |-> "frame", job_id |-> id, timestamp |-> ts]
RecentKey == [kind |-> "recent_frames", job_id |-> 0, timestamp |-> [n |-> 0, d |-> 1]]
FramesKey(id) == [kind |-> "frames", job_id |-> id, timestamp |-> [n |-> 0, d |-> 1]]

\* A call on the redis client raises when the server does not answer; the
\* in-process map never raises.
CacheRaises == use_redis /\ ~redis_up

\* json.dumps / json.loads of the values the program caches (dicts of
\* strings and numbers, and lists of them): the text and the value it parses to.
json_dumps(value) == [json |-> value]
json_loads(text) == text.json

\* `ttl or config.CACHE_TTL`: None and 0 both select the default.
EffectiveTtl(ttl) == IF ttl = <<>> \/ ttl[1] = 0 THEN CACHE_TTL ELSE ttl[1]

\* An entry of the backend: redis holds the JSON text (SETEX), the in-process
\* map the value itself; both with the instant the entry runs out.
Entry(value, ttl, t) ==
    [value |-> IF use_redis THEN json_dumps(value) ELSE value, expires |-> t + EffectiveTtl(ttl)]

\* time.time() < entry['expires']; redis answers for a key until its ttl is up.
Unexpired(c, key, t) == key \in DOMAIN c /\ t < c[key].expires

\* CacheManager.set
cache_set(c, key, value, ttl, t) ==
    [k \in DOMAIN c \cup {key} |-> IF k = key THEN Entry(value, ttl, t) ELSE c[k]]

\* CacheManager.get, its result: None (no element) or the value.
cache_get(c, key, t) ==
    IF Unexpired(c, key, t)
    THEN <<IF use_redis THEN json_loads(c[key].value) ELSE c[key].value>>
    ELSE <<>>

\* CacheManager.delete
cache_delete(c, key) == [k \in DOMAIN c \ {key} |-> c[k]]

\* CacheManager.get, its effect: the in-process map drops an entry found expired.
cache_after_get(c, key, t) ==
    IF ~use_redis /\ key \in DOMAIN c /\ ~Unexpired(c, key, t) THEN cache_delete(c, key) ELSE c

\* The redis server drops the keys whose ttl is up.
redis_expire(c, t) == [k \in {x \in DOMAIN c : t < c[x].expires} |-> c[k]]

set_frame_entries_one_key(c, fr, t) ==
    IF fr = <<>> THEN c
    ELSE cache_set(c, FrameKey(Head(fr).job_id, [n |-> 0, d |-> 1]), fr[Len(fr)], <<>>, t)

\* CacheManager.set_recent_frames: one entry per frame, then the aggregate.
RECURSIVE set_frame_entries(_, _, _)
set_frame_entries(c, fr, t) ==
    IF fr = <<>> THEN c
    ELSE set_frame_entries(
            cache_set(c, FrameKey(Head(fr).job_id, Head(fr).timestamp), Head(fr), <<>>, t),
            Tail(fr), t)

set_recent_frames_default_ttl(c, fr, t) ==
    cache_set(set_frame_entries(c, fr, t), RecentKey, fr, <<>>, t)

set_recent_frames(c, fr, t) == cache_set(set_frame_entries(c, fr, t), RecentKey, fr, <<RecentTtl>>, t)

RECURSIVE SetToSeq(_)
SetToSeq(S) == IF S = {} THEN <<>> ELSE LET x == CHOOSE x \in S : TRUE IN <<x>> \o SetToSeq(S \ {x})

get_recent_frames_cached_any_job(c, id, t) ==
    IF id # 0
    THEN LET keys == {k \in DOMAIN c : k.kind = "frame" /\ Unexpired(c, k, t)}
         IN  Reverse(OrderByTimestamp(SetToSeq({cache_get(c, k, t)[1] : k \in keys})))
    ELSE IF cache_get(c, RecentKey, t) # <<>> THEN cache_get(c, RecentKey, t)[1] ELSE <<>>

\* CacheManager.get_recent_frames_cached, its result; id 0 is no job_id. With
\* a job id: the unexpired entries under the job's "frame:<job_id>:" keys,
\* sorted by timestamp descending. Without: get("recent_frames") or [].
get_recent_frames_cached(c, id, t) ==
    IF id # 0
    THEN LET keys == {k \in DOMAIN c : k.kind = "frame" /\ k.job_id = id /\ Unexpired(c, k, t)}
         IN  Reverse(OrderByTimestamp(SetToSeq({cache_get(c, k, t)[1] : k \in keys})))
    ELSE IF cache_get(c, RecentKey, t) # <<>> THEN cache_get(c, RecentKey, t)[1] ELSE <<>>

\* CacheManager.get_recent_frames_cached, its effect: the scan of the
\* in-process map evicts nothing; get("recent_frames") evicts as get does.
cache_after_recent(c, id, t) == IF id # 0 THEN c ELSE cache_after_get(c, RecentKey, t)

\* ------------------------------------------------------------------ sampler
\* int(x) of the rational n/d: truncation towards zero.
Trunc(n, d) == IF n >= 0 THEN n \div d ELSE -((-n) \div d)

Abs(x) == IF x < 0 THEN -x ELSE x

\* frame_interval = int(fps * interval) if fps > 0 else 30
FrameInterval(src, interval) ==
    IF src.fps > 0 THEN Trunc(src.fps * interval.n, interval.d) ELSE DefaultStride

Timestamp_floor_division(src, fc) ==
    IF src.fps > 0 THEN [n |-> fc \div src.fps, d |-> 1] ELSE [n |-> fc, d |-> 1]

\* timestamp = frame_count / fps if fps > 0 else frame_count
Timestamp(src, fc) == IF src.fps > 0 THEN [n |-> fc, d |-> src.fps] ELSE [n |-> fc, d |-> 1]

\* f"{timestamp:.2f}.jpg": the timestamp rounded to hundredths.
FrameFilename(ts) == (2 * 100 * ts.n + ts.d) \div (2 * ts.d)

\* The while loop from frame_count on, up to the next step that touches shared
\* state: cap.read returns a frame while frame_count < nframes; the stride test
\* raises ZeroDivisionError when frame_interval is 0.
RECURSIVE ReadLoop(_, _, _)
ReadLoop(src, stride, fc) ==
    IF fc >= src.nframes THEN [to |-> "save_completed", fc |-> fc, err |-> Null]
    ELSE IF stride = 0 THEN [to |-> "h_get", fc |-> fc, err |-> "integer modulo by zero"]
    ELSE IF fc % Abs(stride) = 0 THEN [to |-> "write", fc |-> fc, err |-> Null]
    ELSE ReadLoop(src, stride, fc + 1)

\* The frame rows a job's extraction stores when nothing interferes with it.
RECURSIVE SampledFrom(_, _, _, _)
SampledFrom(id, src, stride, fc) ==
    IF fc >= src.nframes \/ stride = 0 THEN <<>>
    ELSE IF fc % Abs(stride) = 0
         THEN <<[job_id |-> id, timestamp |-> Timestamp(src, fc),
                 frame_path |-> [dir |-> id, name |-> FrameFilename(Timestamp(src, fc))]]>>
              \o SampledFrom(id, src, stride, fc + 1)
         ELSE SampledFrom(id, src, stride, fc + 1)

\* ------------------------------------------------------------------ state
CacheManager_init_always_redis(reachable) == TRUE

\* CacheManager.__init__: use_redis is True when the ping at construction
\* is answered, False (with an empty in-process map) when it raises.
CacheManager_init(reachable) == reachable

Init ==
    /\ now = 0
    /\ maxWorkers \in 1..MaxPool
    /\ nextId = 0
    /\ args = <<>>
    /\ jobs = <<>>
    /\ frames = <<>>
    /\ fs = <<>>
    /\ active_jobs = {}
    /\ fut = [j \in JobIds |-> "none"]
    /\ pc = [j \in JobIds |-> "none"]
    /\ job = <<>>
    /\ frame_count = [j \in JobIds |-> 0]
    /\ extracted = [j \in JobIds |-> <<>>]
    /\ exc = [j \in JobIds |-> Null]
    /\ redis_up \in BOOLEAN
    /\ use_redis = CacheManager_init(redis_up)
    /\ cache = <<>>
    /\ cancelRet = [j \in CancelIds |-> "none"]
    /\ cancelAt = [j \in CancelIds |-> "none"]
    /\ ncancels = 0
    /\ cancelling = {}
    /\ waited = {}
    /\ queryRet = [called |-> FALSE, raised |-> FALSE, frames |-> <<>>, store_read |-> FALSE]
    /\ nqueries = 0
    /\ statusRet = <<>>
    /\ cacheRet = <<>>
    /\ reading = [op |-> "none", job_id |-> 0, used |-> 0, out |-> "none"]

Running == {j \in JobIds : fut[j] = "running"}

\* Every pool thread is running an extraction or about to take a queued one.
PoolBusy == Cardinality({k \in JobIds : fut[k] \in {"queued", "running"}}) >= maxWorkers

NewJob_processing(id, source, interval) ==
    [job_id |-> id, status |-> "processing", video_source |-> source, interval |-> interval,
     total_frames |-> 0, processed_frames |-> 0, error_message |-> Null]

\* The JobStatus object built by submit_job.
NewJob(id, source, interval) ==
    [job_id |-> id, status |-> "pending", video_source |-> source, interval |-> interval,
     total_frames |-> 0, processed_frames |-> 0, error_message |-> Null]

\* JobManager.submit_job: save the pending row, hand the extraction to the
\* pool, keep the future in active_jobs.
SubmitJob(source, interval) ==
    /\ nextId < MaxJobs
    /\ LET id == nextId + 1 IN
        /\ nextId' = id
        /\ args' = Append(args, [video_source |-> source, interval |-> interval])
        /\ jobs' = save_job(jobs, NewJob(id, source, interval))
        /\ fut' = [fut EXCEPT ![id] = "queued"]
        /\ active_jobs' = active_jobs \cup {id}
        /\ waited' = IF PoolBusy THEN waited \cup {id} ELSE waited
    /\ UNCHANGED <<now, maxWorkers, frames, fs, pc, localVars, cacheVars, cancelVars, queryVars>>

WorkerTakes_unbounded(j) == TRUE

WorkerTakes_never_reused(j) == j <= maxWorkers

\* ThreadPoolExecutor(max_workers=...): at most max_workers threads, each
\* running one work item at a time, take the items in submission order; the
\* threads that are free hold the oldest pending items, and any of them may be
\* the next to mark its item running.
WorkerTakes(j) ==
    Cardinality({k \in JobIds : k < j /\ fut[k] = "queued"}) + Cardinality(Running) < maxWorkers

\* A pool thread marks the work item of job j running and calls
\* extract_frames_from_video.
WorkerStart(j) ==
    /\ fut[j] = "queued"
    /\ WorkerTakes(j)
    /\ fut' = [fut EXCEPT ![j] = "running"]
    /\ pc' = [pc EXCEPT ![j] = "get"]
    /\ UNCHANGED <<envVars, storeVars, fs, active_jobs, localVars, cacheVars, cancelVars, queryVars>>

\* extract_frames_from_video returns: the future is done, the locals are gone.
Return(j) ==
    /\ fut' = [fut EXCEPT ![j] = "done"]
    /\ pc' = [pc EXCEPT ![j] = "none"]
    /\ job' = [k \in DOMAIN job \ {j} |-> job[k]]
    /\ frame_count' = [frame_count EXCEPT ![j] = 0]
    /\ extracted' = [extracted EXCEPT ![j] = <<>>]
    /\ exc' = [exc EXCEPT ![j] = Null]

Raise_swallowed(j, msg) ==
    /\ pc' = [pc EXCEPT ![j] = "save_completed"]
    /\ exc' = exc

\* Control passes to `except Exception as e` with str(e) = msg.
Raise(j, msg) ==
    /\ pc' = [pc EXCEPT ![j] = "h_get"]
    /\ exc' = [exc EXCEPT ![j] = msg]

SetLocalJob(j, row) == job' = [k \in DOMAIN job \cup {j} |-> IF k = j THEN row ELSE job[k]]

\* job = self.db_manager.get_job(job_id); if not job: return False
GetJob(j) ==
    /\ pc[j] = "get"
    /\ IF get_job_found(jobs, j)
       THEN /\ SetLocalJob(j, jobs[j])
            /\ pc' = [pc EXCEPT ![j] = "save_processing"]
            /\ UNCHANGED <<fut, frame_count, extracted, exc>>
       ELSE Return(j)
    /\ UNCHANGED <<envVars, storeVars, fs, active_jobs, cacheVars, cancelVars, queryVars>>

\* job.status = "processing"; save_job(job)
SaveProcessing(j) ==
    /\ pc[j] = "save_processing"
    /\ LET row == [job[j] EXCEPT !.status = "processing"] IN
        /\ SetLocalJob(j, row)
        /\ jobs' = save_job(jobs, row)
    /\ pc' = [pc EXCEPT ![j] = "mkdir"]
    /\ UNCHANGED <<envVars, frames, fs, poolVars, frame_count, extracted, exc, cacheVars, cancelVars, queryVars>>

\* The loop entered at frame_count fc: the worker's next position.
EnterLoop(j, fc) ==
    LET src == args[j].video_source
        r == ReadLoop(src, FrameInterval(src, args[j].interval), fc)
    IN  /\ pc' = [pc EXCEPT ![j] = r.to]
        /\ frame_count' = [frame_count EXCEPT ![j] = r.fc]
        /\ exc' = [exc EXCEPT ![j] = r.err]

\* job_frames_path.mkdir(parents=True, exist_ok=True), then the source is
\* opened and the loop runs up to its first sampled frame.
MkdirOpen(j) ==
    /\ pc[j] = "mkdir"
    /\ fs' = IF j \in DOMAIN fs THEN fs ELSE [k \in DOMAIN fs \cup {j} |-> IF k = j THEN {} ELSE fs[k]]
    /\ LET src == args[j].video_source IN
        IF ~src.exists
        THEN Raise(j, "Video file does not exist") /\ UNCHANGED frame_count
        ELSE IF ~src.openable
        THEN Raise(j, "Could not open video source with any backend") /\ UNCHANGED frame_count
        ELSE EnterLoop(j, 0)
    /\ UNCHANGED <<envVars, storeVars, poolVars, job, extracted, cacheVars, cancelVars, queryVars>>

\* cv2.imwrite(frame_path), then frame_path.stat() and the checksum read: with
\* the job directory gone imwrite writes nothing and stat raises.
WriteFrame(j) ==
    /\ pc[j] = "write"
    /\ IF j \in DOMAIN fs
       THEN /\ fs' = [fs EXCEPT ![j] = @ \cup {FrameFilename(Timestamp(args[j].video_source, frame_count[j]))}]
            /\ pc' = [pc EXCEPT ![j] = "save_frame"]
            /\ UNCHANGED exc
       ELSE /\ Raise(j, "No such file or directory")
            /\ UNCHANGED fs
    /\ UNCHANGED <<envVars, storeVars, poolVars, job, frame_count, extracted, cacheVars, cancelVars, queryVars>>

\* The FrameMetadata built for the frame at frame_count.
FrameMetadata(j) ==
    LET ts == Timestamp(args[j].video_source, frame_count[j])
    IN  [job_id |-> j, timestamp |-> ts, frame_path |-> [dir |-> j, name |-> FrameFilename(ts)],
         created_at |-> now]

\* save_frame_metadata(frame_metadata); extracted_frames.append(frame_metadata)
SaveFrame(j) ==
    /\ pc[j] = "save_frame"
    /\ frames' = save_frame_metadata(frames, FrameMetadata(j))
    /\ extracted' = [extracted EXCEPT ![j] = Append(@, FrameMetadata(j))]
    /\ pc' = [pc EXCEPT ![j] = "save_progress"]
    /\ UNCHANGED <<envVars, jobs, fs, poolVars, job, frame_count, exc, cacheVars, cancelVars, queryVars>>

\* job.processed_frames = len(extracted_frames); save_job(job); frame_count += 1
SaveProgress(j) ==
    /\ pc[j] = "save_progress"
    /\ LET row == [job[j] EXCEPT !.processed_frames = Len(extracted[j])] IN
        /\ SetLocalJob(j, row)
        /\ jobs' = save_job(jobs, row)
    /\ EnterLoop(j, frame_count[j] + 1)
    /\ UNCHANGED <<envVars, frames, fs, poolVars, extracted, cacheVars, cancelVars, queryVars>>

CompletedJob_total_unset(row, fr) == [row EXCEPT !.status = "completed"]

\* job.status = "completed"; job.total_frames = len(extracted_frames)
CompletedJob(row, fr) == [row EXCEPT !.status = "completed", !.total_frames = Len(fr)]

\* ... save_job(job)
SaveCompleted(j) ==
    /\ pc[j] = "save_completed"
    /\ LET row == CompletedJob(job[j], extracted[j]) IN
        /\ SetLocalJob(j, row)
        /\ jobs' = save_job(jobs, row)
    /\ pc' = [pc EXCEPT ![j] = "cache"]
    /\ UNCHANGED <<envVars, frames, fs, poolVars, frame_count, extracted, exc, cacheVars, cancelVars, queryVars>>

\* extracted_frames[-10:]
LastFrames(fr) == IF Len(fr) <= RecentCap THEN fr ELSE SubSeq(fr, Len(fr) - RecentCap + 1, Len(fr))

\* self.cache_manager.set_recent_frames(extracted_frames[-10:]); return True.
\* The call is inside the try block: a raising cache lands in the handler.
CacheRecentFrames(j) ==
    /\ pc[j] = "cache"
    /\ IF CacheRaises
       THEN /\ Raise(j, "Error connecting to redis")
            /\ UNCHANGED <<cache, fut, job, frame_count, extracted>>
       ELSE /\ cache' = set_recent_frames(cache, LastFrames(extracted[j]), now)
            /\ Return(j)
    /\ UNCHANGED <<envVars, storeVars, fs, active_jobs, use_redis, redis_up, cancelVars, queryVars>>

\* except Exception: job = self.db_manager.get_job(job_id); if job: ...; return False
HandlerGetJob(j) ==
    /\ pc[j] = "h_get"
    /\ IF get_job_found(jobs, j)
       THEN /\ SetLocalJob(j, jobs[j])
            /\ pc' = [pc EXCEPT ![j] = "h_save"]
            /\ UNCHANGED <<fut, frame_count, extracted, exc>>
       ELSE Return(j)
    /\ UNCHANGED <<envVars, storeVars, fs, active_jobs, cacheVars, cancelVars, queryVars>>

FailedJob_progress_reset(row, msg) ==
    [row EXCEPT !.status = "failed", !.error_message = msg, !.processed_frames = 0]

FailedJob_without_message(row, msg) == [row EXCEPT !.status = "failed"]

\* The row the handler writes: status failed, error_message = str(e).
FailedJob(row, msg) == [row EXCEPT !.status = "failed", !.error_message = msg]

\* job.status = "failed"; job.error_message = str(e); save_job(job); return False
HandlerSaveFailed(j) ==
    /\ pc[j] = "h_save"
    /\ jobs' = save_job(jobs, FailedJob(job[j], exc[j]))
    /\ Return(j)
    /\ UNCHANGED <<envVars, frames, fs, active_jobs, cacheVars, cancelVars, queryVars>>

future_cancel_ignored(state) == state

\* future.cancel(): only a future not yet taken by a worker is cancelled.
future_cancel(state) == IF state = "queued" THEN "cancelled" ELSE state

\* The cache key cancel_job deletes.
CancelCacheKey(j) == FramesKey(j)

cancel_except_reraises(raised) == IF raised THEN "raised" ELSE "true"

\* The result of cancel_job: True at the end of the try block, False from
\* `except Exception`.
cancel_except(raised) == IF raised THEN "false" ELSE "true"

\* JobManager.cancel_job, first part: cancel the future and drop the handle
\* (the worker of a running job reads neither), then shutil.rmtree of the job
\* directory if it exists. rmtree may raise OSError (a file appearing or
\* vanishing under it, a permission); the call then ends in the except clause
\* with the directory left in place.
CancelBegin(j) ==
    /\ j \in 0..nextId
    /\ j \notin cancelling
    /\ ncancels < MaxCancels
    /\ ncancels' = ncancels + 1
    /\ fut' = IF j \in active_jobs THEN [fut EXCEPT ![j] = future_cancel(@)] ELSE fut
    /\ active_jobs' = active_jobs \ {j}
    /\ cancelAt' = [cancelAt EXCEPT ![j] = IF j \in Running THEN "running" ELSE "idle"]
    /\ \E raised \in {r \in BOOLEAN : r => j \in DOMAIN fs} :
          IF raised
          THEN /\ cancelRet' = [cancelRet EXCEPT ![j] = cancel_except(TRUE)]
               /\ UNCHANGED <<fs, cancelling>>
          ELSE /\ cancelRet' = [cancelRet EXCEPT ![j] = "none"]
               /\ fs' = [k \in DOMAIN fs \ {j} |-> fs[k]]
               /\ cancelling' = cancelling \cup {j}
    /\ UNCHANGED <<envVars, storeVars, pc, localVars, cacheVars, queryVars>>

\* JobManager.cancel_job, second part: delete_job_data (one transaction),
\* then the cache key. A raising store call (sqlite3.OperationalError) rolls
\* the transaction back; a raising store or cache call makes cancel_job
\* return False with everything before it done.
CancelFinish(j) ==
    /\ j \in cancelling
    /\ cancelling' = cancelling \ {j}
    /\ \E store_raised \in BOOLEAN :
          IF store_raised
          THEN /\ cancelRet' = [cancelRet EXCEPT ![j] = cancel_except(TRUE)]
               /\ UNCHANGED <<frames, jobs, cache>>
          ELSE /\ frames' = delete_frames(frames, j)
               /\ jobs' = delete_job(jobs, j)
               /\ cancelRet' = [cancelRet EXCEPT ![j] = cancel_except(CacheRaises)]
               /\ cache' = IF CacheRaises THEN cache ELSE cache_delete(cache, CancelCacheKey(j))
    /\ UNCHANGED <<envVars, fs, poolVars, pc, localVars, use_redis, redis_up, cancelAt, ncancels, queryVars>>

\* The external cache stops answering: from here on every call on the redis
\* client raises.
RedisDown ==
    /\ use_redis /\ redis_up
    /\ redis_up' = FALSE
    /\ UNCHANGED <<envVars, storeVars, fs, poolVars, pc, localVars, use_redis, cache, cancelVars, queryVars>>

\* The external cache starts answering, after a failure or after a start
\* without it.
RedisUp ==
    /\ ~redis_up
    /\ redis_up' = TRUE
    /\ UNCHANGED <<envVars, storeVars, fs, poolVars, pc, localVars, use_redis, cache, cancelVars, queryVars>>

\* The since_minutes arguments of the dashboard call.
SinceMinutes == {5, 60}

\* DatabaseManager.get_recent_frames: created_at >= since, optionally of one
\* job, ORDER BY created_at DESC. The table is in insertion order, which is the
\* order of created_at; id 0 is no job_id.
get_recent_frames(tbl, since, id) ==
    Reverse(SelectSeq(tbl, LAMBDA f : f.created_at >= since /\ (id = 0 \/ f.job_id = id)))

\* since_time = datetime.now() - timedelta(minutes=since_minutes)
SinceTime(since_minutes, t) == t - 60 * since_minutes

dashboard_frames_store_first(c, tbl, since_minutes, id, t) ==
    LET stored == get_recent_frames(tbl, SinceTime(since_minutes, t), id)
    IN  [frames |-> stored, store_read |-> TRUE]

\* DashboardService.get_recent_frames, its result: the cached frames when
\* there are any, else the store's; store_read tells which path was taken.
dashboard_frames(c, tbl, since_minutes, id, t) ==
    LET cached == get_recent_frames_cached(c, id, t)
    IN  IF cached # <<>>
        THEN [frames |-> cached, store_read |-> FALSE]
        ELSE [frames |-> get_recent_frames(tbl, SinceTime(since_minutes, t), id), store_read |-> TRUE]

\* DashboardService.get_recent_frames, its effect on the cache: the lookup's
\* own eviction and, on a miss that finds frames, set_recent_frames(frames).
dashboard_cache(c, tbl, since_minutes, id, t) ==
    LET r == dashboard_frames(c, tbl, since_minutes, id, t)
        looked == cache_after_recent(c, id, t)
    IN  IF r.store_read /\ r.frames # <<>> THEN set_recent_frames(looked, r.frames, t) ELSE looked

\* DashboardService.get_recent_frames(since_minutes, job_id). A raising cache
\* raises out of the first lookup.
QueryRecentFrames(since_minutes, id) ==
    /\ id \in 0..nextId
    /\ nqueries < MaxQueries
    /\ nqueries' = nqueries + 1
    /\ IF CacheRaises
       THEN /\ queryRet' = [called |-> TRUE, raised |-> TRUE, frames |-> <<>>, store_read |-> FALSE]
            /\ UNCHANGED cache
       ELSE LET r == dashboard_frames(cache, frames, since_minutes, id, now)
            IN  /\ queryRet' = [called |-> TRUE, raised |-> FALSE, frames |-> r.frames,
                                store_read |-> r.store_read]
                /\ cache' = dashboard_cache(cache, frames, since_minutes, id, now)
    /\ UNCHANGED <<envVars, storeVars, fs, poolVars, pc, localVars, use_redis, redis_up, cancelVars,
                   statusRet, cacheRet, reading>>

\* Time passes to a later instant; the redis server expires its keys.
Tick ==
    /\ \E t \in Instants : t > now /\ now' = t
    /\ cache' = IF use_redis THEN redis_expire(cache, now') ELSE cache
    /\ UNCHANGED <<maxWorkers, nextId, args, waited, storeVars, fs, poolVars, pc, localVars,
                   use_redis, redis_up, cancelVars, queryVars>>

\* Direct calls on the CacheManager, as the cache tests make them.
ClientKey == [kind |-> "test_key", job_id |-> 0, timestamp |-> [n |-> 0, d |-> 1]]
ClientValues == {[test |-> "data"]}

\* cache_manager.set(key, value, ttl)
CacheSet(key, value, ttl) ==
    /\ ~CacheRaises
    /\ cache' = cache_set(cache, key, value, ttl, now)
    /\ UNCHANGED <<envVars, storeVars, fs, poolVars, pc, localVars, use_redis, redis_up, cancelVars,
                   queryVars>>

\* cache_manager.get(key)
CacheGet(key) ==
    /\ ~CacheRaises
    /\ cacheRet' = cache_get(cache, key, now)
    /\ cache' = cache_after_get(cache, key, now)
    /\ UNCHANGED <<envVars, storeVars, fs, poolVars, pc, localVars, use_redis, redis_up, cancelVars,
                   queryRet, nqueries, statusRet, reading>>

\* cache_manager.delete(key)
CacheDelete(key) ==
    /\ ~CacheRaises
    /\ cache' = cache_delete(cache, key)
    /\ UNCHANGED <<envVars, storeVars, fs, poolVars, pc, localVars, use_redis, redis_up, cancelVars,
                   queryVars>>

\* DatabaseManager.get_job as a caller sees it: None (no element) or the row.
get_job(tbl, id) == IF get_job_found(tbl, id) THEN <<tbl[id]>> ELSE <<>>

\* JobManager.get_job_status(job_id): one read of the jobs table.
GetJobStatus(j) ==
    /\ j \in 1..nextId
    /\ Len(statusRet) < MaxReads
    /\ statusRet' = Append(statusRet, [job_id |-> j, job |-> get_job(jobs, j)])
    /\ UNCHANGED <<envVars, storeVars, fs, poolVars, pc, localVars, cacheVars, cancelVars,
                   queryRet, nqueries, cacheRet, reading>>

Next ==
    \/ \E source \in Sources, interval \in Intervals : SubmitJob(source, interval)
    \/ \E j \in JobIds : WorkerStart(j)
    \/ \E j \in JobIds : GetJob(j)
    \/ \E j \in JobIds : SaveProcessing(j)
    \/ \E j \in JobIds : MkdirOpen(j)
    \/ \E j \in JobIds : WriteFrame(j)
    \/ \E j \in JobIds : SaveFrame(j)
    \/ \E j \in JobIds : SaveProgress(j)
    \/ \E j \in JobIds : SaveCompleted(j)
    \/ \E j \in JobIds : CacheRecentFrames(j)
    \/ \E j \in JobIds : HandlerGetJob(j)
    \/ \E j \in JobIds : HandlerSaveFailed(j)
    \/ \E j \in JobIds : CancelBegin(j)
    \/ \E j \in JobIds : CancelFinish(j)
    \/ RedisDown

Spec == Init /\ [][Next]_vars

\* What a POST /video-job body carries: video_source absent (no element) or a
\* string, possibly empty, and an interval of either sign.
Paths == {"", "clip.mp4"}
RequestIntervals == {[n |-> -1, d |-> 1], [n |-> 0, d |-> 1], [n |-> 1, d |-> 2]}
Requests == [video_source : {<<>>} \cup {<<p>> : p \in Paths}, interval : RequestIntervals]

\* The file a path names: nothing exists at the empty path.
FileAt(path) == IF path = "" THEN Missing ELSE Video(MaxFps, MaxFrames)

\* Validation of the body against VideoJobRequest: video_source is a required
\* str, interval a float; neither field has a validator.
VideoJobRequest(req) == req.video_source # <<>>

\* submit_video_job: a body that fails validation is answered 422 before the
\* handler runs; otherwise job_manager.submit_job(video_source, interval).
SubmitVideoJob(req) ==
    IF VideoJobRequest(req)
    THEN SubmitJob(FileAt(req.video_source[1]), req.interval)
    ELSE UNCHANGED vars

\* The steps of the pool thread that runs job j.
Worker(j) ==
    \/ WorkerStart(j)
    \/ GetJob(j)
    \/ SaveProcessing(j)
    \/ MkdirOpen(j)
    \/ WriteFrame(j)
    \/ SaveFrame(j)
    \/ SaveProgress(j)
    \/ SaveCompleted(j)
    \/ CacheRecentFrames(j)
    \/ HandlerGetJob(j)
    \/ HandlerSaveFailed(j)

\* Pool threads are operating-system threads: one that can take a step keeps
\* being scheduled until it has taken it. Nothing obliges a client to submit
\* or cancel, or the external cache to fail.
FairSpec == Spec /\ \A j \in JobIds : WF_vars(Worker(j))

\* The orchestration together with the dashboard read path.
NextQuery ==
    \/ Next
    \/ \E since_minutes \in SinceMinutes, id \in 0..MaxJobs : QueryRecentFrames(since_minutes, id)

SpecQuery == Init /\ [][NextQuery]_vars

\* The orchestration together with a client polling a job's status.
NextStatus ==
    \/ Next
    \/ \E j \in JobIds : GetJobStatus(j)

SpecStatus == Init /\ [][NextStatus]_vars

\* The orchestration together with cancel_job calls on an id that names no job.
NextCancel ==
    \/ Next
    \/ CancelBegin(0)
    \/ CancelFinish(0)

SpecCancel == Init /\ [][NextCancel]_vars

\* The CacheManager on its own: direct calls while the clock advances.
NextCache ==
    \/ \E value \in ClientValues, ttl \in Ttls : CacheSet(ClientKey, value, ttl)
    \/ CacheGet(ClientKey)
    \/ CacheDelete(ClientKey)
    \/ Tick

SpecCache == Init /\ [][NextCache]_vars

\* Sources of the jobs behind the dashboard: one that fails, one with no
\* frame, one with MaxFrames frames.
DashboardSources == {Missing, Video(MaxFps, 0), Video(MaxFps, MaxFrames)}

\* The read path over time: jobs on readable sources fill the store and the
\* cache, the dashboard reads through the cache, the clock advances.
NextDashboard ==
    \/ \E source \in DashboardSources, interval \in Intervals : SubmitJob(source, interval)
    \/ \E j \in JobIds : Worker(j)
    \/ \E since_minutes \in SinceMinutes, id \in 0..MaxJobs : QueryRecentFrames(since_minutes, id)
    \/ Tick

SpecDashboard == Init /\ [][NextDashboard]_vars

\* The jobs' cache writes while the external cache comes and goes.
NextBackend ==
    \/ \E source \in DashboardSources, interval \in Intervals : SubmitJob(source, interval)
    \/ \E j \in JobIds : Worker(j)
    \/ RedisDown
    \/ RedisUp

SpecBackend == Init /\ [][NextBackend]_vars

\* The read path inside the in-process map while pool threads call
\* set_recent_frames.  The map is a plain dict and no method takes a lock: the
\* interpreter can switch threads inside the scan's loop body and between the
\* expiry test of get and its del.
\*
\* get_recent_frames_cached(job_id), in-process branch: the for loop over
\* memory_cache.items() starts; the iterator remembers the size of the dict.
\* Over an empty dict the loop body never runs and the call returns at once.
ScanStart(id) ==
    /\ id \in 1..nextId
    /\ ~use_redis
    /\ reading.op = "none"
    /\ nqueries < MaxQueries
    /\ nqueries' = nqueries + 1
    /\ reading' = IF DOMAIN cache = {}
                  THEN [op |-> "none", job_id |-> id, used |-> 0, out |-> "returned"]
                  ELSE [op |-> "scan", job_id |-> id, used |-> Cardinality(DOMAIN cache), out |-> "none"]
    /\ UNCHANGED <<envVars, storeVars, fs, poolVars, pc, localVars, cacheVars, cancelVars,
                   queryRet, statusRet, cacheRet>>

\* The next step of the iterator: RuntimeError("dictionary changed size
\* during iteration") when the dict no longer has the size it started with.
ScanNext ==
    /\ reading.op = "scan"
    /\ reading' = [reading EXCEPT !.op = "none",
                                  !.out = IF Cardinality(DOMAIN cache) # reading.used
                                          THEN "RuntimeError" ELSE "returned"]
    /\ UNCHANGED <<envVars, storeVars, fs, poolVars, pc, localVars, cacheVars, cancelVars,
                   queryRet, nqueries, statusRet, cacheRet>>

\* get("recent_frames"), in-process branch, up to the expiry test: an entry
\* found unexpired, or no entry, returns at once; an entry found expired is
\* about to be deleted.
GetExpired ==
    /\ ~use_redis
    /\ reading.op = "none"
    /\ nqueries < MaxQueries
    /\ nqueries' = nqueries + 1
    /\ reading' = IF RecentKey \in DOMAIN cache /\ ~Unexpired(cache, RecentKey, now)
                  THEN [op |-> "del", job_id |-> 0, used |-> 0, out |-> "none"]
                  ELSE [op |-> "none", job_id |-> 0, used |-> 0, out |-> "returned"]
    /\ UNCHANGED <<envVars, storeVars, fs, poolVars, pc, localVars, cacheVars, cancelVars,
                   queryRet, statusRet, cacheRet>>

\* del self.memory_cache[key]: KeyError when the key is gone, else whatever
\* entry is under the key now is removed.
GetDel ==
    /\ reading.op = "del"
    /\ IF RecentKey \in DOMAIN cache
       THEN /\ cache' = cache_delete(cache, RecentKey)
            /\ reading' = [reading EXCEPT !.op = "none", !.out = "returned"]
       ELSE /\ reading' = [reading EXCEPT !.op = "none", !.out = "KeyError"]
            /\ UNCHANGED cache
    /\ UNCHANGED <<envVars, storeVars, fs, poolVars, pc, localVars, use_redis, redis_up, cancelVars,
                   queryRet, nqueries, statusRet, cacheRet>>

NextThreads ==
    \/ \E source \in DashboardSources, interval \in Intervals : SubmitJob(source, interval)
    \/ \E j \in JobIds : Worker(j)
    \/ \E id \in JobIds : ScanStart(id)
    \/ ScanNext
    \/ GetExpired
    \/ GetDel
    \/ Tick

SpecThreads == Init /\ [][NextThreads]_vars

\* Jobs on readable videos of every frame rate, of MaxFrames frames and of
\* one more, submitted with intervals whose product with the frame rate is
\* below one, whole, and between whole numbers; the external cache may stop
\* and start answering meanwhile.
SampleSources == {Video(f, n) : f \in 0..MaxFps, n \in {MaxFrames, MaxFrames + 1}}

SampleIntervals == {[n |-> 3, d |-> 4], [n |-> 1, d |-> 1], [n |-> 3, d |-> 2]}

NextSampler ==
    \/ \E source \in SampleSources, interval \in SampleIntervals : SubmitJob(source, interval)
    \/ \E j \in JobIds : Worker(j)
    \/ RedisDown
    \/ RedisUp

SpecSampler == Init /\ [][NextSampler]_vars

\* The store called directly, as the database tests call it: rows of every
\* status saved under either id in any order, frame rows saved in any order of
\* timestamp, and delete_job_data.
StoreRows ==
    {[job_id |-> id, status |-> st.status, video_source |-> Video(MaxFps, MaxFrames),
      interval |-> [n |-> 1, d |-> 2], total_frames |-> st.total,
      processed_frames |-> st.processed, error_message |-> st.error] :
        id \in JobIds,
        st \in {[status |-> "pending", total |-> 0, processed |-> 0, error |-> Null],
                [status |-> "processing", total |-> 0, processed |-> 1, error |-> Null],
                [status |-> "completed", total |-> 1, processed |-> 1, error |-> Null],
                [status |-> "failed", total |-> 0, processed |-> 1, error |-> "Test error"]}}

StoreTimestamps == {[n |-> 0, d |-> 1], [n |-> 1, d |-> 2], [n |-> 1, d |-> 1]}

StoreFrames ==
    {[job_id |-> id, timestamp |-> ts, frame_path |-> [dir |-> id, name |-> FrameFilename(ts)],
      created_at |-> 0] : id \in JobIds, ts \in StoreTimestamps}

\* db.save_job(job)
SaveJob(row) ==
    /\ jobs' = save_job(jobs, row)
    /\ UNCHANGED <<envVars, frames, fs, poolVars, pc, localVars, cacheVars, cancelVars, queryVars>>

\* db.save_frame_metadata(frame)
SaveFrameMetadata(frame) ==
    /\ Len(frames) < MaxRows
    /\ frames' = save_frame_metadata(frames, frame)
    /\ UNCHANGED <<envVars, jobs, fs, poolVars, pc, localVars, cacheVars, cancelVars, queryVars>>

\* db.delete_job_data(job_id): both DELETEs run in the one transaction that
\* the connection's with-block commits.
DeleteJobData(id) ==
    /\ frames' = delete_frames(frames, id)
    /\ jobs' = delete_job(jobs, id)
    /\ UNCHANGED <<envVars, fs, poolVars, pc, localVars, cacheVars, cancelVars, queryVars>>

NextStore ==
    \/ \E row \in StoreRows : SaveJob(row)
    \/ \E frame \in StoreFrames : SaveFrameMetadata(frame)
    \/ \E id \in JobIds : DeleteJobData(id)

SpecStore == Init /\ [][NextStore]_vars

\* Submissions through the HTTP endpoint, and the pool threads.
NextApi ==
    \/ \E req \in Requests : SubmitVideoJob(req)
    \/ \E j \in JobIds : Worker(j)

SpecApi == Init /\ [][NextApi]_vars

\* ------------------------------------------------------------------ claims
\* The frame rows of job j, in insertion order.
FramesOf(j) == SelectSeq(frames, LAMBDA f : f.job_id = j)

StrictlyIncreasing(rows) ==
    \A i \in 1..(Len(rows) - 1) : TsLess(rows[i].timestamp, rows[i + 1].timestamp)

WithoutCreatedAt(rows) ==
    [i \in 1..Len(rows) |->
        [job_id |-> rows[i].job_id, timestamp |-> rows[i].timestamp, frame_path |-> rows[i].frame_path]]

Stored(j, st) == get_job_found(jobs, j) /\ jobs[j].status = st

Readable(j) == args[j].video_source.exists /\ args[j].video_source.openable

Terminal(j) == Stored(j, "completed") \/ Stored(j, "failed")

\* C1: once cancel_job has returned True for a job no worker was running
\* (queued, finished or already cancelled), the job has no row, no frame rows
\* and no artifact directory, in that state and in every later one.
C1_CancelIdleRemoves ==
    \A j \in JobIds :
        (cancelAt[j] = "idle" /\ cancelRet[j] = "true")
            => /\ ~get_job_found(jobs, j)
               /\ get_frames_by_job(frames, j) = <<>>
               /\ j \notin DOMAIN fs

\* A finished job that had stored and cached frames has been cancelled.
C1_Witness ==
    \E j \in JobIds :
        /\ cancelAt[j] = "idle" /\ cancelRet[j] = "true" /\ fut[j] = "done"
        /\ \E k \in DOMAIN cache : k.kind = "frame" /\ k.job_id = j

\* C2: once cancel_job has returned True for a job a worker was running, the
\* job row is never in the store again.
C2_CancelRunningStaysRemoved ==
    \A j \in JobIds :
        (cancelAt[j] = "running" /\ cancelRet[j] = "true") => ~get_job_found(jobs, j)

\* C3: a cancel_job call that returns True leaves no per-frame cache entry of
\* the job: get_recent_frames_cached(job) is empty right after it.
C3_CancelEvictsFrames ==
    [][\A j \in JobIds :
        (CancelFinish(j) /\ cancelRet'[j] = "true") => get_recent_frames_cached(cache', j, now') = <<>>]_vars

\* C4: a stored failed job has an error_message, and the status stored after
\* failed is never pending or processing.
C4_FailedIsFinal ==
    [][\A j \in JobIds :
        /\ (get_job_found(jobs', j) /\ jobs'[j].status = "failed") => jobs'[j].error_message # Null
        /\ (Stored(j, "failed") /\ get_job_found(jobs', j))
              => jobs'[j].status \notin {"pending", "processing"}]_vars

C4_Witness ==
    \E j \in JobIds : Stored(j, "failed") /\ fut[j] = "done" /\ jobs[j].error_message # Null

\* C5: a stored completed job has processed_frames <= total_frames.
C5_CompletedProcessedLeTotal ==
    \A j \in JobIds : Stored(j, "completed") => jobs[j].processed_frames <= jobs[j].total_frames

C5_Witness ==
    \E j \in JobIds : Stored(j, "completed") /\ jobs[j].processed_frames >= 2

\* C6: for a job never cancelled, from the write of completed on, total_frames
\* is the number of frames extracted, the number of frame rows of the job and
\* processed_frames.
C6_CompletedCounts ==
    \A j \in JobIds :
        (Stored(j, "completed") /\ cancelAt[j] = "none")
            => /\ jobs[j].total_frames = Len(FramesOf(j))
               /\ jobs[j].total_frames = jobs[j].processed_frames
               /\ pc[j] = "cache" => jobs[j].total_frames = Len(extracted[j])

C6_Witness ==
    \E j \in JobIds :
        Stored(j, "completed") /\ cancelAt[j] = "none" /\ pc[j] = "cache" /\ jobs[j].total_frames >= 2

\* C7: the frame rows of a job are inserted in strictly increasing timestamp
\* order, and get_frames_by_job returns strictly increasing timestamps.
C7_TimestampsIncrease ==
    \A j \in JobIds :
        /\ StrictlyIncreasing(FramesOf(j))
        /\ StrictlyIncreasing(get_frames_by_job(frames, j))

C7_Witness == \E j \in JobIds : Len(get_frames_by_job(frames, j)) >= 2

\* C8: a raising cache fails no surrounding operation: a job stored as
\* completed is not turned into failed, a cancel_job call whose store deletion
\* went through returns True, and the dashboard query returns the store's
\* frames instead of raising.
C8_CacheFailureSwallowed ==
    [][/\ \A j \in JobIds :
            (Stored(j, "completed") /\ get_job_found(jobs', j)) => jobs'[j].status = "completed"
       /\ \A j \in JobIds :
            (CancelFinish(j) /\ CacheRaises /\ ~get_job_found(jobs', j)) => cancelRet'[j] = "true"
       /\ \A since_minutes \in SinceMinutes, id \in 0..MaxJobs :
            (CacheRaises /\ QueryRecentFrames(since_minutes, id))
               => /\ ~queryRet'.raised
                  /\ queryRet'.frames = get_recent_frames(frames, SinceTime(since_minutes, now), id)]_vars

\* C9: with at least two workers and no cancellation, a job with a readable
\* source that finishes while another such job is running ends completed, with
\* exactly the frame rows its extraction stores alone; every frame row lies
\* under the directory of its own job.
C9_ConcurrentJobsComplete ==
    [][\A a, b \in JobIds :
        (/\ a # b /\ maxWorkers >= 2 /\ ncancels' = 0
         /\ fut[a] = "running" /\ fut'[a] = "done" /\ fut[b] = "running"
         /\ Readable(a) /\ Readable(b))
            => /\ get_job_found(jobs', a) /\ jobs'[a].status = "completed"
               /\ WithoutCreatedAt(get_frames_by_job(frames', a))
                    = SampledFrom(a, args[a].video_source,
                                  FrameInterval(args[a].video_source, args[a].interval), 0)
               /\ \A i \in 1..Len(frames') : frames'[i].frame_path.dir = frames'[i].job_id]_vars

\* C10: never more than max_workers extractions run; a job whose future is
\* still queued has not been touched by a worker: if its row exists it is
\* pending with no progress, and it has no frame rows.
C10_PoolBound ==
    /\ Cardinality(Running) <= maxWorkers
    /\ \A j \in JobIds :
          fut[j] = "queued"
            => /\ pc[j] = "none"
               /\ FramesOf(j) = <<>>
               /\ get_job_found(jobs, j)
                    => (jobs[j].status = "pending" /\ jobs[j].processed_frames = 0)

\* A job waits, accepted and pending, while every worker is busy.
C10_Witness ==
    \E j \in JobIds :
        fut[j] = "queued" /\ Cardinality(Running) = maxWorkers /\ Stored(j, "pending")

\* C11: under fair scheduling of the pool threads, every submitted job
\* eventually has stored status completed or failed, unless a cancel_job call
\* has been made; this includes the jobs submitted while every thread was busy.
C11_EveryJobEnds ==
    \A j \in JobIds : (j <= nextId) ~> (Terminal(j) \/ ncancels > 0)

\* A job submitted while every pool thread was busy has run to its end.
C11_Witness ==
    \E j \in JobIds : j \in waited /\ ncancels = 0 /\ Terminal(j) /\ fut[j] = "done"

C13_MissingSourceFails ==
    /\ [](\A j \in 1..nextId :
            ~args[j].video_source.exists => (FramesOf(j) = <<>> /\ ~Stored(j, "completed")))
    /\ \A j \in JobIds :
          (j <= nextId /\ ~args[j].video_source.exists)
            ~> [](ncancels > 0 \/ (Stored(j, "failed") /\ jobs[j].error_message # Null))

\* The extraction of a job with a missing source has returned.
C13_Witness ==
    \E j \in 1..nextId :
        /\ ~args[j].video_source.exists /\ ncancels = 0 /\ fut[j] = "done"
        /\ Stored(j, "failed") /\ jobs[j].error_message = "Video file does not exist"

\* C14: a submission whose interval is zero or negative, or whose source is
\* missing or empty, changes neither the store, the pool nor the handle map.
C14_InvalidSubmissionRejected ==
    [][\A req \in Requests :
        (/\ SubmitVideoJob(req)
         /\ \/ req.interval.n <= 0
            \/ req.video_source = <<>>
            \/ req.video_source = <<"">>)
            => UNCHANGED <<jobs, frames, fut, active_jobs>>]_vars

\* C15: cancel_job on an id that has no job row (never submitted) does not
\* return success.
C15_CancelUnknownFails ==
    [][\A j \in CancelIds :
        (CancelFinish(j) /\ j \notin 1..nextId) => cancelRet'[j] # "true"]_vars

\* C16: cancel_job never raises: it returns True or False, and False whenever
\* the directory removal, the store deletion or the cache eviction raised.
C16_CancelNeverRaises ==
    [][\A j \in CancelIds :
        /\ cancelRet'[j] \in {"none", "true", "false"}
        /\ (CancelBegin(j) /\ j \in DOMAIN fs') => cancelRet'[j] = "false"
        /\ (CancelFinish(j)
              /\ (CacheRaises \/ get_job_found(jobs', j) \/ get_frames_by_job(frames', j) # <<>>))
              => cancelRet'[j] = "false"]_vars

\* A cancel_job call has ended in its except clause.
C16_Witness ==
    \E j \in CancelIds : cancelRet[j] = "false" /\ cancelAt[j] # "none" /\ j \notin cancelling

\* C17: after set(k, v, ttl) with a ttl given, and nothing but time in
\* between, get(k) returns v while less than ttl seconds have passed and
\* absent once ttl seconds have passed; the in-process map then also drops
\* the entry.
C17_SetThenGet ==
    [][\A value \in ClientValues, ttl \in Ttls \ {<<>>} :
        CacheSet(ClientKey, value, ttl)
            => \A t \in {i \in Instants : i >= now} :
                 LET c == IF use_redis THEN redis_expire(cache', t) ELSE cache' IN
                    /\ t - now < ttl[1] => cache_get(c, ClientKey, t) = <<value>>
                    /\ t - now >= ttl[1]
                         => /\ cache_get(c, ClientKey, t) = <<>>
                            /\ ~use_redis => ClientKey \notin DOMAIN cache_after_get(c, ClientKey, t)]_vars

\* C18: in every reachable state, get_recent_frames called twice with the
\* same arguments, the second call on the cache the first one left and with
\* nothing else in between, returns the same frames in the same order both
\* times, with and without a job id.
C18_SecondCallSame ==
    \A since_minutes \in SinceMinutes, id \in 0..nextId :
        LET first == dashboard_frames(cache, frames, since_minutes, id, now)
            left == dashboard_cache(cache, frames, since_minutes, id, now)
            second == dashboard_frames(left, frames, since_minutes, id, now)
        IN  second.frames = first.frames

\* A call with a job id has missed the cache, returned the two frames of the
\* store and left them in the cache for the next call.
C18_Witness ==
    /\ queryRet.called /\ queryRet.store_read /\ Len(queryRet.frames) >= 2
    /\ \E id \in 1..nextId :
          /\ \A i \in 1..Len(queryRet.frames) : queryRet.frames[i].job_id = id
          /\ get_recent_frames_cached(cache, id, now) = queryRet.frames
          /\ ~dashboard_frames(cache, frames, 60, id, now).store_read

\* C19: get_recent_frames looks in the cache first. A non-empty cached result
\* is returned as it is, with no store query and no cache write. On an empty
\* one the store's result is returned, after set_recent_frames of it when it
\* is non-empty, and with no cache write when it is empty.
C19_CacheAside ==
    [][\A since_minutes \in SinceMinutes, id \in 0..MaxJobs :
        (QueryRecentFrames(since_minutes, id) /\ ~CacheRaises)
            => LET cached == get_recent_frames_cached(cache, id, now)
                   looked == cache_after_recent(cache, id, now)
                   stored == get_recent_frames(frames, SinceTime(since_minutes, now), id)
               IN  /\ cached # <<>>
                        => (queryRet'.frames = cached /\ ~queryRet'.store_read /\ cache' = cache)
                   /\ cached = <<>>
                        => /\ queryRet'.store_read /\ queryRet'.frames = stored
                           /\ stored # <<>> => cache' = set_recent_frames(looked, stored, now)
                           /\ stored = <<>> => cache' = looked]_vars

\* A call was answered from the cache with frames that are not what the store
\* would have answered.
C19_Witness ==
    /\ queryRet.called /\ ~queryRet.store_read /\ queryRet.frames # <<>>
    /\ \A since_minutes \in SinceMinutes, id \in 0..MaxJobs :
          queryRet.frames # get_recent_frames(frames, SinceTime(since_minutes, now), id)

\* The value held under key k, as a reader gets it.
Held(k) == IF use_redis THEN json_loads(cache[k].value) ELSE cache[k].value

\* The per-frame keys of job id whose entries have not run out.
LiveFrameKeys(id) ==
    {k \in DOMAIN cache : k.kind = "frame" /\ k.job_id = id /\ now < cache[k].expires}

\* C20: with a job id, get_recent_frames_cached returns the unexpired
\* per-frame entries of that job, each once, by strictly descending timestamp,
\* and nothing of another job; without one it returns the aggregate entry as
\* it is, or the empty list when that entry is absent or has run out.
C20_CachedFrames ==
    /\ \A id \in JobIds :
          LET r == get_recent_frames_cached(cache, id, now) IN
            /\ {r[i] : i \in 1..Len(r)} = {Held(k) : k \in LiveFrameKeys(id)}
            /\ Len(r) = Cardinality(LiveFrameKeys(id))
            /\ \A i \in 1..Len(r) : r[i].job_id = id
            /\ \A i \in 1..(Len(r) - 1) : TsLess(r[i + 1].timestamp, r[i].timestamp)
    /\ get_recent_frames_cached(cache, 0, now)
          = IF RecentKey \in DOMAIN cache /\ now < cache[RecentKey].expires
            THEN Held(RecentKey) ELSE <<>>

\* The cache holds unexpired frames of two jobs, or of one job beside expired
\* entries of the other, and a dashboard call was answered from it.
C20_Witness ==
    /\ queryRet.called /\ ~queryRet.store_read /\ Len(queryRet.frames) >= 2
    /\ \E a, b \in JobIds :
          /\ a # b
          /\ Cardinality(LiveFrameKeys(a)) >= 2
          /\ \E k \in DOMAIN cache : k.kind = "frame" /\ k.job_id = b

\* C21: the backend is chosen at construction and never changes: a cache
\* built while the external backend did not answer uses the in-process map,
\* and goes on using it when the external backend answers later.
C21_BackendChosenOnce ==
    /\ (~redis_up => ~use_redis)
    /\ [][use_redis' = use_redis]_vars

\* A job's frames were cached in the in-process map while the external
\* backend, absent at construction, was answering.
C21_Witness ==
    /\ ~use_redis /\ redis_up
    /\ \E j \in JobIds : fut[j] = "done" /\ \E k \in DOMAIN cache : k.kind = "frame" /\ k.job_id = j

\* C22: save_job upserts by job id with full overwrite: in every state of the
\* store, after save_job(row) get_job(row.job_id) returns exactly that row
\* whatever was stored under the id before, and the rows of the other ids are
\* as they were; get_job finds nothing under an id never saved, nor under an
\* id once delete_job_data has run, and a row appears under an id only by a
\* save_job of that id.  (One row per id is the PRIMARY KEY of the table: the
\* table is a function of job_id.)
C22_SaveJobUpserts ==
    /\ \A id \in JobIds : get_job(jobs, id) = <<>>
    /\ [](\A row \in StoreRows :
            /\ get_job(save_job(jobs, row), row.job_id) = <<row>>
            /\ \A k \in JobIds \ {row.job_id} : get_job(save_job(jobs, row), k) = get_job(jobs, k))
    /\ [][\A id \in JobIds :
            /\ DeleteJobData(id) => get_job(jobs', id) = <<>>
            /\ get_job(jobs', id) # get_job(jobs, id) =>
                   \/ DeleteJobData(id)
                   \/ \E row \in StoreRows : row.job_id = id /\ SaveJob(row)]_vars

\* Direct store calls left a failed row under one id, nothing under the
\* other, and frame rows.
C22_Witness ==
    /\ nextId = 0
    /\ \E id \in JobIds :
        /\ get_job(jobs, id) # <<>> /\ get_job(jobs, id)[1].status = "failed"
        /\ get_job(jobs, id)[1].error_message = "Test error"
        /\ \E k \in JobIds \ {id} : get_job(jobs, k) = <<>>
    /\ frames # <<>>

Count(rows, f) == Cardinality({i \in DOMAIN rows : rows[i] = f})

\* C23: get_frames_by_job(id) returns all and only the frame rows of job id
\* (each as many times as it was saved), in ascending order of timestamp,
\* whatever order they were saved in.
C23_FramesByJobOrdered ==
    \A id \in JobIds :
        LET r == get_frames_by_job(frames, id)
        IN  /\ \A i \in DOMAIN r : r[i].job_id = id
            /\ \A i \in DOMAIN frames : frames[i].job_id = id => Count(r, frames[i]) = Count(frames, frames[i])
            /\ \A i \in DOMAIN r : Count(r, r[i]) = Count(frames, r[i])
            /\ \A i \in 1..(Len(r) - 1) : ~TsLess(r[i + 1].timestamp, r[i].timestamp)

\* A job's frame rows were saved latest first, with a row of the other job
\* between them.
C23_Witness ==
    /\ Len(frames) = MaxRows
    /\ \E id \in JobIds :
        /\ frames[1].job_id = id /\ frames[3].job_id = id /\ frames[2].job_id # id
        /\ TsLess(frames[3].timestamp, frames[1].timestamp)
        /\ Len(get_frames_by_job(frames, id)) = 2

\* C24: delete_job_data removes the job row and the frame rows of an id as
\* one unit: no step, with workers and readers running beside it, takes
\* frame rows of the id out of the store and leaves its job row, or takes the
\* job row out and leaves frame rows; right after the step get_job(id) finds
\* nothing and get_frames_by_job(id) is empty.
C24_DeleteAsOneUnit ==
    [][\A id \in JobIds :
          (\/ Len(get_frames_by_job(frames', id)) < Len(get_frames_by_job(frames, id))
           \/ get_job_found(jobs, id) /\ ~get_job_found(jobs', id))
          => /\ CancelFinish(id)
             /\ get_job(jobs', id) = <<>>
             /\ get_frames_by_job(frames', id) = <<>>]_vars

\* delete_job_data has run for a job whose worker had already stored frame
\* rows and is still extracting: nothing of the job is in the store.
C24_Witness ==
    \E j \in JobIds :
        /\ cancelAt[j] = "running" /\ cancelRet[j] = "true" /\ j \in Running
        /\ extracted[j] # <<>>
        /\ get_job(jobs, j) = <<>> /\ get_frames_by_job(frames, j) = <<>>

Transitions == {<<"pending", "processing">>, <<"processing", "completed">>, <<"processing", "failed">>}

\* C25: the status stored for a job changes only along pending -> processing,
\* processing -> completed and processing -> failed; a stored completed
\* never becomes anything else while the row stays.
C25_StatusTransitions ==
    [][\A j \in JobIds :
          (get_job_found(jobs, j) /\ get_job_found(jobs', j) /\ jobs'[j].status # jobs[j].status)
          => <<jobs[j].status, jobs'[j].status>> \in Transitions]_vars

\* C26: a worker whose job is cancelled while it runs finishes at most the
\* call it is in and writes nothing more for the job.  delete_job_data took
\* the job row and every frame row of the job out of the store, so once
\* cancel_job has returned True the store never again holds both a job row
\* and a frame row of the job: that takes two writes after the cancellation.
C26_NoWriteAfterCancel ==
    \A j \in JobIds :
        (cancelAt[j] = "running" /\ cancelRet[j] = "true")
        => ~(get_job_found(jobs, j) /\ get_frames_by_job(frames, j) # <<>>)

\* C27: the operations on the in-process map are mutually exclusive: the
\* per-job scan and get never fail because a pool thread changed the map in
\* the middle of them, and the lazy eviction of get removes only the expired
\* entry it found, never one set after its expiry test.
C27_MemoryCacheAtomic ==
    /\ [](reading.out \notin {"RuntimeError", "KeyError"})
    /\ [][GetDel => (RecentKey \in DOMAIN cache /\ ~Unexpired(cache, RecentKey, now))]_vars

Active == {j \in JobIds : fut[j] \in {"queued", "running"}}

\* C28: active_jobs holds the future of a job only while the job is queued
\* or running: a job whose extraction has ended is not in it, and the number
\* of futures in it is the number of active jobs.
C28_HandlesAreActive ==
    /\ \A j \in active_jobs : j \in Active
    /\ Cardinality(active_jobs) = Cardinality(Active)

\* C29: the processed_frames stored for a job never decreases while the row
\* stays, and the step that stores failed keeps the count stored before it,
\* which is the number of frames the worker had extracted.
C29_ProcessedMonotone ==
    [][\A j \in JobIds :
          (get_job_found(jobs, j) /\ get_job_found(jobs', j))
          => /\ jobs'[j].processed_frames >= jobs[j].processed_frames
             /\ (jobs'[j].status = "failed" /\ jobs[j].status # "failed")
                => /\ jobs'[j].processed_frames = jobs[j].processed_frames
                   /\ jobs'[j].processed_frames = Len(extracted[j])]_vars

\* A job failed after its worker had stored progress: the failed row keeps
\* the count.
C29_Witness ==
    \E j \in JobIds :
        /\ fut[j] = "done" /\ Stored(j, "failed")
        /\ jobs[j].processed_frames >= 1
        /\ jobs[j].processed_frames = Len(get_frames_by_job(frames, j))

RowsOf(tbl, j) == SelectSeq(tbl, LAMBDA f : f.job_id = j)

\* C30: the frame rows of a job are append-only: every step either leaves
\* the rows stored for the job as they were, with at most new rows after
\* them, or is the delete_job_data of a cancel_job call for that job, which
\* removes them all; the step that stores failed changes no frame row.
C30_FrameRowsAppendOnly ==
    [][\A j \in JobIds :
          LET before == RowsOf(frames, j)
              after == RowsOf(frames', j)
          IN  /\ \/ Len(after) >= Len(before) /\ SubSeq(after, 1, Len(before)) = before
                 \/ CancelFinish(j) /\ after = <<>>
              /\ HandlerSaveFailed(j) => frames' = frames]_vars

\* A job failed with frame rows stored; they are still there, in the order
\* they were inserted.
C30_Witness ==
    \E j \in JobIds :
        /\ Stored(j, "failed") /\ fut[j] = "done" /\ cancelAt[j] = "none"
        /\ Len(FramesOf(j)) = MaxFrames
        /\ FramesOf(j) = get_frames_by_job(frames, j)

BatchKeys(batch) == {FrameKey(batch[i].job_id, batch[i].timestamp) : i \in DOMAIN batch} \cup {RecentKey}

\* C31: a set_recent_frames(batch) call that does not raise writes one entry
\* per frame under the key of its job id and timestamp, running out
\* CACHE_TTL seconds later, and one entry under "recent_frames" holding the
\* whole batch, running out 300 seconds later, and touches no other key;
\* right after it get of each per-frame key returns that frame and get of
\* "recent_frames" returns exactly the batch.
C31_SetRecentFrames ==
    [][\A j \in JobIds :
          (CacheRecentFrames(j) /\ ~CacheRaises)
          => LET batch == LastFrames(extracted[j])
             IN  /\ DOMAIN cache' = DOMAIN cache \cup BatchKeys(batch)
                 /\ \A k \in DOMAIN cache \ BatchKeys(batch) : cache'[k] = cache[k]
                 /\ \A i \in DOMAIN batch :
                       LET key == FrameKey(j, batch[i].timestamp)
                       IN  /\ cache_get(cache', key, now) = <<batch[i]>>
                           /\ cache'[key].expires = now + CACHE_TTL
                 /\ cache_get(cache', RecentKey, now) = <<batch>>
                 /\ cache'[RecentKey].expires = now + RecentTtl]_vars

\* A job has cached a batch of two frames in redis at a later instant than
\* the start: the aggregate entry and both per-frame entries answer.
C31_Witness ==
    /\ use_redis /\ redis_up /\ now > 0
    /\ \E j \in JobIds :
        /\ fut[j] = "done" /\ Stored(j, "completed")
        /\ cache_get(cache, RecentKey, now) = <<FramesOf(j)>>
        /\ Len(FramesOf(j)) = 2
        /\ \A i \in 1..2 : cache_get(cache, FrameKey(j, FramesOf(j)[i].timestamp), now) = <<FramesOf(j)[i]>>
        /\ cache[RecentKey].expires = now + RecentTtl

\* round(n/d) for n >= 0, d > 0: the nearest integer, a tie going to the
\* even one.
Round(n, d) ==
    LET q == n \div d
        r == n % d
    IN  IF 2 * r < d THEN q
        ELSE IF 2 * r > d THEN q + 1
        ELSE IF q % 2 = 0 THEN q ELSE q + 1

RoundedStride(src, interval) ==
    IF src.fps > 0 THEN Round(src.fps * interval.n, interval.d) ELSE DefaultStride

\* C32: the sampling stride is round(frame rate * interval) when the frame
\* rate is positive and 30 when it is not, and a job that ended completed
\* has stored exactly the frames whose index is a multiple of that stride,
\* each with timestamp index / frame rate (the index itself without a rate).
C32_StrideIsRounded ==
    \A j \in 1..nextId :
        LET src == args[j].video_source
            interval == args[j].interval
        IN  /\ FrameInterval(src, interval) = RoundedStride(src, interval)
            /\ (Stored(j, "completed") /\ fut[j] = "done")
               => WithoutCreatedAt(get_frames_by_job(frames, j)) = SampledFrom(j, src, RoundedStride(src, interval), 0)

Ceil(n, d) == (n + d - 1) \div d

\* C33: a job on a readable source of N frames at frame rate f > 0, submitted
\* with an interval i for which s = f * i is a positive integer, ends
\* completed with total_frames = ceil(N / s) and frame rows at the
\* timestamps 0, i, 2i, ...
C33_WholeStrideCompletes ==
    \A j \in 1..nextId :
        LET src == args[j].video_source
            i == args[j].interval
            rows == get_frames_by_job(frames, j)
        IN  (/\ src.fps > 0 /\ (src.fps * i.n) % i.d = 0 /\ (src.fps * i.n) \div i.d > 0
             /\ fut[j] = "done")
            => /\ Stored(j, "completed")
               /\ jobs[j].total_frames = Ceil(src.nframes, (src.fps * i.n) \div i.d)
               /\ Len(rows) = jobs[j].total_frames
               /\ \A k \in DOMAIN rows : TsEq(rows[k].timestamp, [n |-> (k - 1) * i.n, d |-> i.d])

\* C34: a get_recent_frames call with a job id that misses the cache and
\* backfills it does not change what a following get_recent_frames call
\* without a job id returns.
C34_BackfillKeepsUnfiltered ==
    ~CacheRaises =>
        \A id \in 1..nextId, since_minutes \in SinceMinutes, following \in SinceMinutes :
            LET r == dashboard_frames(cache, frames, since_minutes, id, now)
                backfilled == dashboard_cache(cache, frames, since_minutes, id, now)
            IN  (r.store_read /\ r.frames # <<>>)
                => dashboard_frames(backfilled, frames, following, 0, now).frames
                   = dashboard_frames(cache, frames, following, 0, now).frames

\* C35: every frame row in the store belongs to a job whose job row is in
\* the store.
C35_NoOrphanFrames == \A i \in DOMAIN frames : get_job_found(jobs, frames[i].job_id)

\* C36: when cancel_job finds the job queued, with no worker on it, the
\* extraction never runs: the future stays cancelled, no worker is ever in
\* the job, its stored status is never processing and no frame row or frames
\* directory of it exists.
C36_CancelQueuedNeverRuns ==
    \A j \in JobIds :
        (cancelAt[j] = "idle" /\ fut[j] # "done")
        => /\ fut[j] = "cancelled"
           /\ pc[j] = "none"
           /\ ~Stored(j, "processing")
           /\ get_frames_by_job(frames, j) = <<>>
           /\ j \notin DOMAIN fs

\* A job was cancelled while it waited for the only pool thread; the job
\* ahead of it has run to its end since.
C36_Witness ==
    \E j \in JobIds :
        /\ cancelAt[j] = "idle" /\ fut[j] = "cancelled" /\ cancelRet[j] = "true"
        /\ maxWorkers = 1
        /\ get_job(jobs, j) = <<>>
        /\ \E k \in JobIds \ {j} : fut[k] = "done" /\ Stored(k, "completed")

FrameEntries(c, j) == [k \in {x \in DOMAIN c : x.kind = "frame" /\ x.job_id = j} |-> c[k]]

\* C37: a cancel_job(A) call, its delete_job_data(A) included, leaves every
\* other job B as it was: B's job row, B's frame rows, B's frames directory
\* and the files in it, B's future and its place in active_jobs, and B's
\* per-frame cache entries.
C37_CancelLeavesOthers ==
    [][\A a \in CancelIds :
          (CancelBegin(a) \/ CancelFinish(a))
          => \A b \in JobIds \ {a} :
                /\ get_job(jobs', b) = get_job(jobs, b)
                /\ RowsOf(frames', b) = RowsOf(frames, b)
                /\ (b \in DOMAIN fs') = (b \in DOMAIN fs)
                /\ b \in DOMAIN fs => fs'[b] = fs[b]
                /\ (b \in active_jobs') = (b \in active_jobs)
                /\ fut'[b] = fut[b]
                /\ FrameEntries(cache', b) = FrameEntries(cache, b)]_vars

\* A finished job was cancelled and its rows, files and future are gone; the
\* other job, finished too, still has all of its own.
C37_Witness ==
    \E a \in JobIds, b \in JobIds :
        /\ a # b
        /\ cancelAt[a] = "idle" /\ cancelRet[a] = "true" /\ fut[a] = "done"
        /\ get_job(jobs, a) = <<>> /\ a \notin DOMAIN fs /\ a \notin active_jobs
        /\ Stored(b, "completed") /\ Len(RowsOf(frames, b)) = MaxFrames
        /\ b \in DOMAIN fs /\ fs[b] # {} /\ b \in active_jobs
        /\ FrameEntries(cache, b) # <<>>

\* C38: every frame a get_recent_frames(since_minutes, job_id) call returns
\* was created within the last since_minutes, whether the answer comes from
\* the store or from the cache.
C38_RecentWithinWindow ==
    ~CacheRaises =>
        \A since_minutes \in SinceMinutes, id \in 0..nextId :
            LET r == dashboard_frames(cache, frames, since_minutes, id, now)
            IN  \A i \in DOMAIN r.frames : r.frames[i].created_at >= SinceTime(since_minutes, now)

\* C39: a job that completes with no frame extracted leaves the cache as it
\* was: what get_recent_frames_cached() without a job id returned before the
\* job's set_recent_frames call, it returns after it.
C39_EmptyJobKeepsCache ==
    [][\A j \in JobIds :
          (CacheRecentFrames(j) /\ ~CacheRaises /\ extracted[j] = <<>>)
          => /\ cache' = cache
             /\ get_recent_frames_cached(cache', 0, now) = get_recent_frames_cached(cache, 0, now)]_vars

\* C40: while a job's stored status is processing and no cancel_job call has
\* been made for it, its stored processed_frames is the number of frame rows
\* stored for it or one less: the frame row is saved before the counter.
C40_ProgressTracksRows ==
    \A j \in JobIds :
        (Stored(j, "processing") /\ cancelAt[j] = "none")
        => /\ jobs[j].processed_frames <= Len(get_frames_by_job(frames, j))
           /\ Len(get_frames_by_job(frames, j)) <= jobs[j].processed_frames + 1

\* A worker has inserted its second frame row and not yet saved the counter.
C40_Witness ==
    \E j \in JobIds :
        /\ Stored(j, "processing") /\ cancelAt[j] = "none" /\ pc[j] = "save_progress"
        /\ Len(get_frames_by_job(frames, j)) = 2
        /\ jobs[j].processed_frames = 1

====
